---- MODULE Spec2Model ----
(***************************************************************************)
(* ktpUtils: the two fixed-capacity object pools of object_pool.hpp        *)
(* (ktp::ObjectPool and ktp::IndexedObjectPool) and ktp::Timer of          *)
(* timer.hpp.                                                              *)
(*                                                                         *)
(* A behaviour follows either one pool family of a single kind or a pair   *)
(* of Timers read against one steady clock.  Object "A" is  *)
(* built by the capacity constructor; object "B" does not exist until it   *)
(* is move-constructed.  A slot pointer (first_available_, next_) is the   *)
(* index of the PoolUnit it points to inside the storage array, or         *)
(* nullptr.  std::size_t is SizeBits wide and wraps.                       *)
(***************************************************************************)
EXTENDS Integers, Sequences, FiniteSets, TLC

\* ---------------------------------------------------------------- bounds
MaxCap == 3             \* largest capacity handed to the constructor
MaxStray == 1           \* calls followed once deactivate() has hit a slot that is not active
LargeCap == 5           \* largest capacity of the indexed pool driven by SpecIdx
SmallCap == 2           \* largest capacity of the pools driven by SpecAcc and SpecVal
MaxVal == 1             \* largest value a caller stores in a slot
MaxNow == 3             \* last reading of the clock that is followed
MaxMoves == 1           \* moves from one object into another made in one behaviour
SizeBits == 16          \* width of std::size_t (16 is the least the standard allows)

SizeMod == 2 ^ SizeBits
SizeMax == SizeMod - 1  \* (std::size_t)-1

nullptr == -1           \* the null PoolUnit pointer
NoRet == -2             \* the call returned void

Objs == {"A", "B"}
Kinds == {"basic", "indexed"}
Timers == {"t1", "t2"}

VARIABLES
  kind,                   \* which class template the behaviour is about
  born,                   \* born[o]: object o has been constructed
  capacity_,              \* capacity_[o]
  active_count_,          \* active_count_[o]
  first_available_,       \* first_available_[o]: slot index or nullptr
  pool_,                  \* pool_[o]: "heap" (the array) or "null"
  highest_active_index_,  \* highest_active_index_[o] (indexed pool only)
  storage,                \* the array made by inflatePool: "live" or "deleted"
  active_,                \* active_[i]: PoolUnit i's active_ flag
  next_,                  \* next_[i]: PoolUnit i's next_ pointer
  index_,                 \* index_[i]: IndexedPoolUnit i's index_
  null_lowest,            \* the build orders the null pointer below every address of the array
  fault,                  \* the process died dereferencing a null pointer
  call,                   \* the last call made: operation, object, index argument, other object
  ret,                    \* what the last call returned
  run,                    \* returns of the activate() calls since construction / clear()
  freed,                  \* ObjectPool: indices deactivated and not yet handed out again, newest first
  due,                    \* head of freed when the last activate() was called (NoRet: none)
  moves,                  \* number of moves made from one object into another
  strayed,                \* calls made since, and with, the first deactivate() of a slot that was not active
  oob,                    \* a PoolUnit outside the storage array has been read or written
  handed,                 \* slots returned by activate() and not deactivated or cleared since
  object_,                \* object_[i]: the value stored in PoolUnit i
  now,                    \* the reading of std::chrono::steady_clock, in ticks
  m_paused_time,          \* m_paused_time[t]
  m_started_time,         \* m_started_time[t]
  m_paused,               \* m_paused[t]
  m_started,              \* m_started[t]
  m_stopped,              \* m_stopped[t]
  ctor,                   \* ctor[t]: the start argument Timer t was constructed with
  tcall,                  \* the last call made on a Timer: operation, timer, clock reading
  tret,                   \* what the last Timer call returned
  life,                   \* life[t]: "fresh" (no call since construction), "idle" (calls, but never a start) or "used"
  mode,                   \* mode[t]: "unstarted", "running", "paused" or "stopped", as the calls made on t ask
  ran,                    \* ran[t]: ticks t has spent running since its last start
  started_at,             \* started_at[t]: clock reading at the last start of t
  paused_at,              \* paused_at[t]: clock reading at the pause() that paused t
  resumed                 \* resumed[t]: t has been resumed since its last start

poolvars == <<born, capacity_, active_count_, first_available_, pool_,
              highest_active_index_, storage, active_, next_, index_>>
timervars == <<now, m_paused_time, m_started_time, m_paused, m_started, m_stopped,
               ctor, tcall, tret, life, mode, ran, started_at, paused_at, resumed>>
vars == <<kind, null_lowest, born, capacity_, active_count_, first_available_, pool_,
          highest_active_index_, storage, active_, next_, index_, fault,
          call, ret, run, freed, due, moves, strayed, oob, handed, object_, timervars>>

\* ------------------------------------------------------------- size_t
\* ++n on a std::size_t
Inc(n) == (n + 1) % SizeMod

\* --n on a std::size_t
Dec(n) == (n + SizeMod - 1) % SizeMod

Slots(cap) == 0 .. (cap - 1)

\* the index arguments a caller passes: every slot, one past the end, and (size_t)-1
Indices(cap) == 0 .. cap \cup {SizeMax}

Call(op, this, index, other) ==
  [op |-> op, this |-> this, index |-> index, other |-> other]

\* ------------------------------------------------------------- clear()
\* the next_ links clear() leaves: slot i -> slot i+1, the last one -> nullptr
\* faulty variant: the last slot is linked back to slot 0
ClearNext_Ring(cap) == [i \in Slots(cap) |-> (i + 1) % cap]

ClearNext(cap) == [i \in Slots(cap) |-> IF i = cap - 1 THEN nullptr ELSE i + 1]

\* the active_ flags clear() leaves
ClearActive(cap) == [i \in Slots(cap) |-> FALSE]

\* the index_ fields IndexedObjectPool::clear() writes
ClearIndex(cap) == [i \in Slots(cap) |-> i]

\* ------------------------------------------------------------- Timer members
\* a call on Timer t made at the clock reading at
TCall(op, t, at) == [op |-> op, timer |-> t, at |-> at]

\* the members and the history of Timers constructed by Timer(start[t]) at the
\* clock reading at; start() run by the constructor is written out
TimerBuilt(start, at) ==
  /\ now = at
  /\ m_paused_time = [t \in Timers |-> 0]
  /\ m_started_time = [t \in Timers |-> IF start[t] THEN at ELSE 0]
  /\ m_paused = [t \in Timers |-> FALSE]
  /\ m_started = start
  /\ m_stopped = [t \in Timers |-> ~start[t]]
  /\ ctor = start
  /\ tcall = TCall("construct", "t1", at)
  /\ tret = NoRet
  /\ life = [t \in Timers |-> "fresh"]
  /\ mode = [t \in Timers |-> IF start[t] THEN "running" ELSE "unstarted"]
  /\ ran = [t \in Timers |-> 0]
  /\ started_at = [t \in Timers |-> IF start[t] THEN at ELSE 0]
  /\ paused_at = [t \in Timers |-> 0]
  /\ resumed = [t \in Timers |-> FALSE]

\* the Timers of a behaviour that follows a pool: default-constructed and left alone
TimerIdle == TimerBuilt([t \in Timers |-> FALSE], 0)

\* ------------------------------------------------------------- Init
\* ObjectPool(capacity) / IndexedObjectPool(capacity): inflatePool(); clear();
\* B has not been constructed: its members hold their default initialisers.
\* With capacity 0 the array has no PoolUnit: clear() leaves first_available_
\* at &pool_[0], one past the end, and writes pool_[capacity_ - 1].next_,
\* PoolUnit (std::size_t)-1, outside the array; the process dies there or goes on.
PoolBuilt(kinds, caps) ==
  /\ kind \in kinds
  /\ null_lowest \in IF kind = "indexed" THEN BOOLEAN ELSE {TRUE}
  /\ \E n \in caps :
       /\ call = Call("construct", "A", n, "A")
       /\ capacity_ = [o \in Objs |-> IF o = "A" THEN n ELSE 0]
       /\ active_ = ClearActive(n)
       /\ next_ = ClearNext(n)
       /\ index_ = IF kind = "indexed" THEN ClearIndex(n) ELSE [i \in Slots(n) |-> 0]
       /\ object_ = [i \in Slots(n) |-> 0]
       /\ oob = (Dec(n) >= n)
       /\ fault \in IF Dec(n) >= n THEN BOOLEAN ELSE {FALSE}
  /\ born = [o \in Objs |-> o = "A"]
  /\ active_count_ = [o \in Objs |-> 0]
  /\ first_available_ = [o \in Objs |-> IF o = "A" THEN 0 ELSE nullptr]
  /\ pool_ = [o \in Objs |-> IF o = "A" THEN "heap" ELSE "null"]
  /\ highest_active_index_ = [o \in Objs |-> 0]
  /\ storage = "live"
  /\ ret = NoRet
  /\ run = [src |-> "construct", rets |-> <<>>]
  /\ freed = <<>>
  /\ due = NoRet
  /\ moves = 0
  /\ strayed = 0
  /\ handed = {}

InitFor(kinds, maxcap) == PoolBuilt(kinds, 0 .. maxcap) /\ TimerIdle

Init == InitFor(Kinds, MaxCap)

\* the caller holds a constructed pool that owns the storage, the process is
\* alive and no call has reached outside the array (what the program does
\* after that is not followed)
Usable(this) ==
  born[this] /\ pool_[this] = "heap" /\ storage = "live" /\ ~fault /\ ~oob

\* every call made once the pool has been misused is counted, up to MaxStray;
\* clear() rebuilds the whole pool and starts the count again
Stray(misuse) ==
  IF strayed > 0 \/ misuse
    THEN strayed < MaxStray /\ strayed' = strayed + 1
    ELSE UNCHANGED strayed

\* run after one more activate() returning r
RunAfterActivate(this, r) ==
  IF run.src # "off" /\ Len(run.rets) <= capacity_[this]
    THEN [run EXCEPT !.rets = Append(@, r)]
    ELSE run

\* the sequence s with every occurrence of x removed
Without(s, x) == SelectSeq(s, LAMBDA y : y # x)

RunOff == [src |-> "off", rets |-> <<>>]

\* ------------------------------------------------------------- ObjectPool
\* T* ObjectPool::activate()
\* faulty variant: first_available_ is not advanced
ObjActivate_NoAdvance(this) ==
  /\ kind = "basic" /\ Usable(this)
  /\ LET f == first_available_[this] IN
     IF f # nullptr
       THEN /\ active_' = [active_ EXCEPT ![f] = TRUE]
            /\ active_count_' = [active_count_ EXCEPT ![this] = Inc(@)]
            /\ ret' = f
            /\ freed' = Without(freed, f)
            /\ run' = RunAfterActivate(this, f)
            /\ UNCHANGED first_available_
       ELSE /\ ret' = nullptr
            /\ run' = RunAfterActivate(this, nullptr)
            /\ UNCHANGED <<active_, first_available_, active_count_, freed>>
  /\ call' = Call("activate", this, NoRet, this)
  /\ handed' = handed \cup ({first_available_[this]} \ {nullptr})
  /\ due' = IF freed # <<>> THEN Head(freed) ELSE NoRet
  /\ Stray(FALSE)
  /\ UNCHANGED <<kind, null_lowest, oob, object_, timervars,
                 born, capacity_, pool_, highest_active_index_, storage,
                 next_, index_, fault, moves>>

ObjActivate(this) ==
  /\ kind = "basic" /\ Usable(this)
  /\ LET f == first_available_[this] IN
     IF f # nullptr
       THEN /\ active_' = [active_ EXCEPT ![f] = TRUE]
            /\ first_available_' = [first_available_ EXCEPT ![this] = next_[f]]
            /\ active_count_' = [active_count_ EXCEPT ![this] = Inc(@)]
            /\ ret' = f
            /\ freed' = Without(freed, f)
            /\ run' = RunAfterActivate(this, f)
       ELSE /\ ret' = nullptr
            /\ run' = RunAfterActivate(this, nullptr)
            /\ UNCHANGED <<active_, first_available_, active_count_, freed>>
  /\ call' = Call("activate", this, NoRet, this)
  /\ handed' = handed \cup ({first_available_[this]} \ {nullptr})
  /\ due' = IF freed # <<>> THEN Head(freed) ELSE NoRet
  /\ Stray(FALSE)
  /\ UNCHANGED <<kind, null_lowest, oob, object_, timervars,
                 born, capacity_, pool_, highest_active_index_, storage,
                 next_, index_, fault, moves>>

\* void ObjectPool::clear()
\* faulty variant: every slot's value is reset as well
ObjClear_ResetsValues(this) ==
  /\ kind = "basic" /\ Usable(this)
  /\ first_available_' = [first_available_ EXCEPT ![this] = 0]
  /\ active_' = ClearActive(capacity_[this])
  /\ next_' = ClearNext(capacity_[this])
  /\ active_count_' = [active_count_ EXCEPT ![this] = 0]
  /\ object_' = [i \in Slots(capacity_[this]) |-> 0]
  /\ call' = Call("clear", this, NoRet, this)
  /\ ret' = NoRet
  /\ run' = [src |-> "clear", rets |-> <<>>]
  /\ freed' = <<>>
  /\ due' = NoRet
  /\ strayed' = 0
  /\ handed' = {}
  /\ UNCHANGED <<kind, null_lowest, oob, timervars,
                 born, capacity_, pool_, highest_active_index_, storage,
                 index_, fault, moves>>

ObjClear(this) ==
  /\ kind = "basic" /\ Usable(this)
  /\ first_available_' = [first_available_ EXCEPT ![this] = 0]
  /\ active_' = ClearActive(capacity_[this])
  /\ next_' = ClearNext(capacity_[this])
  /\ active_count_' = [active_count_ EXCEPT ![this] = 0]
  /\ call' = Call("clear", this, NoRet, this)
  /\ ret' = NoRet
  /\ run' = [src |-> "clear", rets |-> <<>>]
  /\ freed' = <<>>
  /\ due' = NoRet
  /\ strayed' = 0
  /\ handed' = {}
  /\ UNCHANGED <<kind, null_lowest, oob, object_, timervars,
                 born, capacity_, pool_, highest_active_index_, storage,
                 index_, fault, moves>>

\* deactivate(index) is applied to a slot of the array that is not active
Misuse(this, index) == index < capacity_[this] /\ ~active_[index]

\* the bookkeeping of a deactivate(index) call: an index freed while active is
\* remembered in freed
DeactivateNotes(this, index) ==
  /\ call' = Call("deactivate", this, index, this)
  /\ ret' = NoRet
  /\ due' = NoRet
  /\ run' = RunOff
  /\ Stray(Misuse(this, index))
  /\ freed' = IF kind = "basic" /\ index < capacity_[this]
                THEN IF active_[index] THEN <<index>> \o freed ELSE <<>>
                ELSE freed
  /\ handed' = handed \ {index}

\* pool_[index].next_ = first_available_: the next_ links once the freed slot
\* points to the old head
\* faulty variant: the freed slot keeps its old link
PushFront_NoLink(nxt, first, index) == nxt

PushFront(nxt, first, index) == [nxt EXCEPT ![index] = first]

\* void ObjectPool::deactivate(std::size_t index)
\* faulty variant: the freed slot is linked behind the current head
ObjDeactivate_AfterHead(this, index) ==
  /\ kind = "basic" /\ Usable(this)
  /\ DeactivateNotes(this, index)
  /\ IF index < capacity_[this]
       THEN LET first == first_available_[this] IN
            /\ active_' = [active_ EXCEPT ![index] = FALSE]
            /\ IF first # nullptr /\ first # index
                 THEN /\ next_' = [next_ EXCEPT ![index] = next_[first], ![first] = index]
                      /\ UNCHANGED first_available_
                 ELSE /\ next_' = [next_ EXCEPT ![index] = first]
                      /\ first_available_' = [first_available_ EXCEPT ![this] = index]
            /\ active_count_' = [active_count_ EXCEPT ![this] = Dec(@)]
       ELSE UNCHANGED <<active_, next_, first_available_, active_count_>>
  /\ UNCHANGED <<kind, null_lowest, oob, object_, timervars,
                 born, capacity_, pool_, highest_active_index_,
                 storage, index_, fault, moves>>

\* faulty variant: --active_count_ sits outside the bounds check
ObjDeactivate_CountsAnyIndex(this, index) ==
  /\ kind = "basic" /\ Usable(this)
  /\ DeactivateNotes(this, index)
  /\ IF index < capacity_[this]
       THEN /\ active_' = [active_ EXCEPT ![index] = FALSE]
            /\ next_' = PushFront(next_, first_available_[this], index)
            /\ first_available_' = [first_available_ EXCEPT ![this] = index]
       ELSE UNCHANGED <<active_, next_, first_available_>>
  /\ active_count_' = [active_count_ EXCEPT ![this] = Dec(@)]
  /\ UNCHANGED <<kind, null_lowest, oob, object_, timervars,
                 born, capacity_, pool_, highest_active_index_,
                 storage, index_, fault, moves>>

ObjDeactivate(this, index) ==
  /\ kind = "basic" /\ Usable(this)
  /\ DeactivateNotes(this, index)
  /\ IF index < capacity_[this]
       THEN /\ active_' = [active_ EXCEPT ![index] = FALSE]
            /\ next_' = PushFront(next_, first_available_[this], index)
            /\ first_available_' = [first_available_ EXCEPT ![this] = index]
            /\ active_count_' = [active_count_ EXCEPT ![this] = Dec(@)]
       ELSE UNCHANGED <<active_, next_, first_available_, active_count_>>
  /\ UNCHANGED <<kind, null_lowest, oob, object_, timervars,
                 born, capacity_, pool_, highest_active_index_, storage,
                 index_, fault, moves>>

\* the bookkeeping of a move into this from other
MoveNotes(op, this, other) ==
  /\ call' = Call(op, this, NoRet, other)
  /\ ret' = NoRet
  /\ run' = RunOff
  /\ IF this # other
       THEN moves < MaxMoves /\ moves' = moves + 1
       ELSE UNCHANGED moves
  /\ Stray(FALSE)
  /\ UNCHANGED <<freed, due, handed>>

\* the body of ObjectPool& ObjectPool::operator=(ObjectPool&& other)
\* faulty variant: active_count_ is not copied
ObjMoveBody_DropsCount(this, other) ==
  IF this # other
    THEN /\ capacity_' = [capacity_ EXCEPT ![this] = capacity_[other]]
         /\ storage' = IF pool_[this] = "heap" THEN "deleted" ELSE storage
         /\ first_available_' = [first_available_ EXCEPT
                                   ![this] = first_available_[other],
                                   ![other] = nullptr]
         /\ pool_' = [pool_ EXCEPT ![this] = pool_[other], ![other] = "null"]
         /\ UNCHANGED active_count_
    ELSE UNCHANGED <<active_count_, capacity_, storage, first_available_, pool_>>

ObjMoveBody(this, other) ==
  IF this # other
    THEN /\ active_count_' = [active_count_ EXCEPT ![this] = active_count_[other]]
         /\ capacity_' = [capacity_ EXCEPT ![this] = capacity_[other]]
         /\ storage' = IF pool_[this] = "heap" THEN "deleted" ELSE storage
         /\ first_available_' = [first_available_ EXCEPT
                                   ![this] = first_available_[other],
                                   ![other] = nullptr]
         /\ pool_' = [pool_ EXCEPT ![this] = pool_[other], ![other] = "null"]
    ELSE UNCHANGED <<active_count_, capacity_, storage, first_available_, pool_>>

\* ObjectPool& ObjectPool::operator=(ObjectPool&& other), this == &other included
ObjMoveAssign(this, other) ==
  /\ kind = "basic" /\ ~fault /\ ~oob
  /\ born[this] /\ born[other]
  /\ ObjMoveBody(this, other)
  /\ MoveNotes("move_assign", this, other)
  /\ UNCHANGED <<kind, null_lowest, oob, object_, timervars,
                 born, highest_active_index_, active_, next_,
                 index_, fault>>

\* ObjectPool::ObjectPool(ObjectPool&& other) { *this = std::move(other); }
ObjMoveConstruct(this, other) ==
  /\ kind = "basic" /\ ~fault /\ ~oob
  /\ ~born[this] /\ born[other]
  /\ born' = [born EXCEPT ![this] = TRUE]
  /\ ObjMoveBody(this, other)
  /\ MoveNotes("move_construct", this, other)
  /\ UNCHANGED <<kind, null_lowest, oob, object_, timervars,
                 highest_active_index_, active_, next_,
                 index_, fault>>

\* ------------------------------------------------------------- IndexedObjectPool
\* p < q on two IndexedPoolUnit pointers.  Two pointers into the array compare
\* by position and equal pointers are not less; how a null pointer compares
\* with an address of the array is unspecified, and fixed by the build.
PtrLess(p, q) ==
  IF p = q THEN FALSE
  ELSE IF p # nullptr /\ q # nullptr THEN p < q
  ELSE IF p = nullptr THEN null_lowest ELSE ~null_lowest

\* T* IndexedObjectPool::activate()
IdxActivate(this) ==
  /\ kind = "indexed" /\ Usable(this)
  /\ LET f == first_available_[this] IN
     IF f # nullptr
       THEN /\ active_' = [active_ EXCEPT ![f] = TRUE]
            /\ highest_active_index_' =
                 [highest_active_index_ EXCEPT
                    ![this] = IF index_[f] > @ THEN index_[f] ELSE @]
            /\ first_available_' = [first_available_ EXCEPT ![this] = next_[f]]
            /\ active_count_' = [active_count_ EXCEPT ![this] = Inc(@)]
            /\ ret' = f
            /\ freed' = Without(freed, f)
            /\ run' = RunAfterActivate(this, f)
       ELSE /\ ret' = nullptr
            /\ run' = RunAfterActivate(this, nullptr)
            /\ UNCHANGED <<active_, highest_active_index_, first_available_,
                           active_count_, freed>>
  /\ call' = Call("activate", this, NoRet, this)
  /\ handed' = handed \cup ({first_available_[this]} \ {nullptr})
  /\ due' = IF freed # <<>> THEN Head(freed) ELSE NoRet
  /\ Stray(FALSE)
  /\ UNCHANGED <<kind, null_lowest, oob, object_, timervars,
                 born, capacity_, pool_, storage, next_,
                 index_, fault, moves>>

\* void IndexedObjectPool::clear()
\* faulty variant: highest_active_index_ is not reset
IdxClear_KeepsHighest(this) ==
  /\ kind = "indexed" /\ Usable(this)
  /\ first_available_' = [first_available_ EXCEPT ![this] = 0]
  /\ active_' = ClearActive(capacity_[this])
  /\ index_' = ClearIndex(capacity_[this])
  /\ next_' = ClearNext(capacity_[this])
  /\ active_count_' = [active_count_ EXCEPT ![this] = 0]
  /\ UNCHANGED highest_active_index_
  /\ call' = Call("clear", this, NoRet, this)
  /\ ret' = NoRet
  /\ run' = [src |-> "clear", rets |-> <<>>]
  /\ freed' = <<>>
  /\ due' = NoRet
  /\ strayed' = 0
  /\ handed' = {}
  /\ UNCHANGED <<kind, null_lowest, oob, object_, timervars,
                 born, capacity_, pool_, storage, fault, moves>>

IdxClear(this) ==
  /\ kind = "indexed" /\ Usable(this)
  /\ first_available_' = [first_available_ EXCEPT ![this] = 0]
  /\ active_' = ClearActive(capacity_[this])
  /\ index_' = ClearIndex(capacity_[this])
  /\ next_' = ClearNext(capacity_[this])
  /\ active_count_' = [active_count_ EXCEPT ![this] = 0]
  /\ highest_active_index_' = [highest_active_index_ EXCEPT ![this] = 0]
  /\ call' = Call("clear", this, NoRet, this)
  /\ ret' = NoRet
  /\ run' = [src |-> "clear", rets |-> <<>>]
  /\ freed' = <<>>
  /\ due' = NoRet
  /\ strayed' = 0
  /\ handed' = {}
  /\ UNCHANGED <<kind, null_lowest, oob, object_, timervars,
                 born, capacity_, pool_, storage, fault, moves>>

\* the reverse loop of deactivate(): for (i = start; i != (std::size_t)-1; --i)
\* returning the first active i, and 0 when the loop runs out
RECURSIVE ScanDown(_, _)
ScanDown(act, i) ==
  IF i = SizeMax THEN 0
  ELSE IF act[i] THEN i
  ELSE ScanDown(act, Dec(i))

\* highest_active_index_ after deactivate(index), act being the flags it left
\* faulty variant: no scan for the next active slot below
HighestAfterDeactivate_NoScan(hai, index, act) == IF hai = index THEN 0 ELSE hai

HighestAfterDeactivate(hai, index, act) ==
  IF hai = index
    THEN IF index = 0 THEN hai ELSE ScanDown(act, Dec(hai))
    ELSE hai

\* void IndexedObjectPool::deactivate(std::size_t index)
IdxDeactivate(this, index) ==
  /\ kind = "indexed" /\ Usable(this)
  /\ DeactivateNotes(this, index)
  /\ IF index < capacity_[this]
       THEN LET first == first_available_[this]
                act == [active_ EXCEPT ![index] = FALSE]
            IN  /\ active_' = act
                /\ IF PtrLess(first, next_[index]) /\ first = nullptr
                     THEN \* first_available_->next_ read through a null pointer
                          /\ fault' = TRUE
                          /\ UNCHANGED <<next_, first_available_, active_count_,
                                         highest_active_index_>>
                     ELSE /\ IF PtrLess(first, next_[index])
                               THEN LET aux == next_[first]
                                        linked == [next_ EXCEPT ![first] = index]
                                    IN  /\ next_' = [linked EXCEPT ![index] = aux]
                                        /\ UNCHANGED first_available_
                               ELSE /\ next_' = [next_ EXCEPT ![index] = first]
                                    /\ first_available_' =
                                         [first_available_ EXCEPT ![this] = index]
                          /\ active_count_' = [active_count_ EXCEPT ![this] = Dec(@)]
                          /\ highest_active_index_' =
                               [highest_active_index_ EXCEPT
                                  ![this] = HighestAfterDeactivate(@, index, act)]
                          /\ UNCHANGED fault
       ELSE UNCHANGED <<active_, next_, first_available_, active_count_,
                        highest_active_index_, fault>>
  /\ UNCHANGED <<kind, null_lowest, oob, object_, timervars,
                 born, capacity_, pool_, storage, index_, moves>>

\* the body of IndexedObjectPool& IndexedObjectPool::operator=(IndexedObjectPool&& other)
IdxMoveBody(this, other) ==
  IF this # other
    THEN /\ active_count_' = [active_count_ EXCEPT ![this] = active_count_[other]]
         /\ capacity_' = [capacity_ EXCEPT ![this] = capacity_[other]]
         /\ highest_active_index_' =
              [highest_active_index_ EXCEPT ![this] = highest_active_index_[other]]
         /\ storage' = IF pool_[this] = "heap" THEN "deleted" ELSE storage
         /\ first_available_' = [first_available_ EXCEPT
                                   ![this] = first_available_[other],
                                   ![other] = nullptr]
         /\ pool_' = [pool_ EXCEPT ![this] = pool_[other], ![other] = "null"]
    ELSE UNCHANGED <<active_count_, capacity_, highest_active_index_, storage,
                     first_available_, pool_>>

\* IndexedObjectPool& IndexedObjectPool::operator=(IndexedObjectPool&& other)
IdxMoveAssign(this, other) ==
  /\ kind = "indexed" /\ ~fault /\ ~oob
  /\ born[this] /\ born[other]
  /\ IdxMoveBody(this, other)
  /\ MoveNotes("move_assign", this, other)
  /\ UNCHANGED <<kind, null_lowest, oob, object_, timervars,
                 born, active_, next_, index_, fault>>

\* IndexedObjectPool::IndexedObjectPool(IndexedObjectPool&& other) { *this = std::move(other); }
IdxMoveConstruct(this, other) ==
  /\ kind = "indexed" /\ ~fault /\ ~oob
  /\ ~born[this] /\ born[other]
  /\ born' = [born EXCEPT ![this] = TRUE]
  /\ IdxMoveBody(this, other)
  /\ MoveNotes("move_construct", this, other)
  /\ UNCHANGED <<kind, null_lowest, oob, object_, timervars,
                 active_, next_, index_, fault>>

Next ==
  \/ \E this \in Objs : ObjActivate(this)
  \/ \E this \in Objs : ObjClear(this)
  \/ \E this \in Objs : \E index \in Indices(capacity_[this]) : ObjDeactivate(this, index)
  \/ \E this, other \in Objs : ObjMoveAssign(this, other)
  \/ \E this, other \in Objs : ObjMoveConstruct(this, other)
  \/ \E this \in Objs : IdxActivate(this)
  \/ \E this \in Objs : IdxClear(this)
  \/ \E this \in Objs : \E index \in Indices(capacity_[this]) : IdxDeactivate(this, index)
  \/ \E this, other \in Objs : IdxMoveAssign(this, other)
  \/ \E this, other \in Objs : IdxMoveConstruct(this, other)

Spec == Init /\ [][Next]_vars

\* ------------------------------------------------------------- SpecIdx
\* An IndexedObjectPool of a capacity up to LargeCap, on a build with a flat
\* address space (the null pointer is address 0, below the array), whose caller
\* keeps to the contract: deactivate() only on slots that are active, no moves.
InitIdx == InitFor({"indexed"}, LargeCap) /\ null_lowest

IdxDeactivateActive(this, index) ==
  /\ index < capacity_[this] /\ active_[index]
  /\ IdxDeactivate(this, index)

NextIdx ==
  \/ IdxActivate("A")
  \/ IdxClear("A")
  \/ \E index \in Slots(capacity_["A"]) : IdxDeactivateActive("A", index)

SpecIdx == InitIdx /\ [][NextIdx]_vars

\* ------------------------------------------------------------- SpecAcc
\* the bookkeeping of a call that only reads the pool
ReadNotes(op, this, index) ==
  /\ call' = Call(op, this, index, this)
  /\ UNCHANGED <<kind, null_lowest, poolvars, run, freed, due, moves, strayed,
                 handed, object_, timervars>>

\* index < capacity_ ? &pool_[index] : nullptr
\* faulty variant: one past the end passes the check
AtPointer_Inclusive(cap, index) == IF index <= cap THEN index ELSE nullptr

AtPointer(cap, index) == IF index < cap THEN index ELSE nullptr

\* auto ObjectPool::at(std::size_t index)
ObjAt(this, index) ==
  /\ kind = "basic" /\ Usable(this)
  /\ ret' = AtPointer(capacity_[this], index)
  /\ ReadNotes("at", this, index)
  /\ UNCHANGED <<fault, oob>>

\* auto IndexedObjectPool::at(std::size_t index)
IdxAt(this, index) ==
  /\ kind = "indexed" /\ Usable(this)
  /\ ret' = AtPointer(capacity_[this], index)
  /\ ReadNotes("at", this, index)
  /\ UNCHANGED <<fault, oob>>

\* a bool as a call returns it
Flag(b) == IF b THEN 1 ELSE 0

\* return pool_[index].active_;  with index >= capacity_ the PoolUnit read lies
\* outside the array: the call returns whatever is found there, or the process dies
ActiveBody(this, index) ==
  /\ ReadNotes("active", this, index)
  /\ IF index < capacity_[this]
       THEN /\ ret' = Flag(active_[index])
            /\ UNCHANGED <<fault, oob>>
       ELSE /\ oob' = TRUE
            /\ \E died \in BOOLEAN :
                 /\ fault' = died
                 /\ ret' \in IF died THEN {NoRet} ELSE {Flag(FALSE), Flag(TRUE)}

\* auto ObjectPool::active(std::size_t index) const
ObjActive(this, index) == kind = "basic" /\ Usable(this) /\ ActiveBody(this, index)

\* auto IndexedObjectPool::active(std::size_t index) const
IdxActive(this, index) == kind = "indexed" /\ Usable(this) /\ ActiveBody(this, index)

\* A pool of a capacity up to SmallCap under every call of its interface but the moves.
InitAcc == InitFor(Kinds, SmallCap)

NextAcc ==
  \/ ObjActivate("A")
  \/ ObjClear("A")
  \/ \E index \in Indices(capacity_["A"]) : ObjDeactivate("A", index)
  \/ \E index \in Indices(capacity_["A"]) : ObjAt("A", index)
  \/ \E index \in Indices(capacity_["A"]) : ObjActive("A", index)
  \/ IdxActivate("A")
  \/ IdxClear("A")
  \/ \E index \in Indices(capacity_["A"]) : IdxDeactivate("A", index)
  \/ \E index \in Indices(capacity_["A"]) : IdxAt("A", index)
  \/ \E index \in Indices(capacity_["A"]) : IdxActive("A", index)

SpecAcc == InitAcc /\ [][NextAcc]_vars

\* ------------------------------------------------------------- SpecVal
Values == 0 .. MaxVal

\* *handle = v, handle being what activate() returned for slot index
StoreBody(this, index, v) ==
  /\ index \in handed
  /\ object_' = [object_ EXCEPT ![index] = v]
  /\ call' = Call("store", this, index, this)
  /\ ret' = NoRet
  /\ UNCHANGED <<kind, null_lowest, poolvars, fault, oob, run, freed, due, moves,
                 strayed, handed, timervars>>

ObjStore(this, index, v) == kind = "basic" /\ Usable(this) /\ StoreBody(this, index, v)

IdxStore(this, index, v) == kind = "indexed" /\ Usable(this) /\ StoreBody(this, index, v)

\* A pool of a capacity up to SmallCap whose caller writes values into the
\* slots it has been handed.
InitVal == InitFor(Kinds, SmallCap)

NextVal ==
  \/ ObjActivate("A")
  \/ ObjClear("A")
  \/ \E index \in Indices(capacity_["A"]) : ObjDeactivate("A", index)
  \/ \E index \in Slots(capacity_["A"]) : \E v \in Values : ObjStore("A", index, v)
  \/ IdxActivate("A")
  \/ IdxClear("A")
  \/ \E index \in Indices(capacity_["A"]) : IdxDeactivate("A", index)
  \/ \E index \in Slots(capacity_["A"]) : \E v \in Values : IdxStore("A", index, v)

SpecVal == InitVal /\ [][NextVal]_vars

\* ------------------------------------------------------------- Timer
poolside == <<kind, null_lowest, poolvars, fault, call, ret, run, freed, due, moves,
              strayed, oob, handed, object_>>

\* Duration Timer::elapsed() const
\* faulty variant: m_started is not consulted
Elapsed_IgnoresStarted(t) ==
  IF m_paused[t] THEN m_paused_time[t] - m_started_time[t]
                 ELSE now - m_started_time[t]

Elapsed(t) ==
  IF m_started[t]
    THEN IF m_paused[t] THEN m_paused_time[t] - m_started_time[t]
                        ELSE now - m_started_time[t]
    ELSE 0

\* life[t] after one more call on t that is not a start
Touched(t) ==
  [life EXCEPT ![t] = IF @ = "fresh" THEN (IF ctor[t] THEN "used" ELSE "idle") ELSE @]

\* the steady clock moves on by one tick
Tick ==
  /\ now < MaxNow
  /\ now' = now + 1
  /\ ran' = [t \in Timers |-> IF mode[t] = "running" THEN ran[t] + 1 ELSE ran[t]]
  /\ UNCHANGED <<m_paused_time, m_started_time, m_paused, m_started, m_stopped,
                 ctor, tcall, tret, life, mode, started_at, paused_at, resumed, poolside>>

\* void Timer::start()
\* faulty variant: m_paused is left as it is
TStart_KeepsPause(t) ==
  /\ m_started_time' = [m_started_time EXCEPT ![t] = now]
  /\ m_paused_time' = [m_paused_time EXCEPT ![t] = 0]
  /\ m_started' = [m_started EXCEPT ![t] = TRUE]
  /\ m_stopped' = [m_stopped EXCEPT ![t] = FALSE]
  /\ tcall' = TCall("start", t, now)
  /\ tret' = NoRet
  /\ life' = [life EXCEPT ![t] = "used"]
  /\ mode' = [mode EXCEPT ![t] = "running"]
  /\ ran' = [ran EXCEPT ![t] = 0]
  /\ started_at' = [started_at EXCEPT ![t] = now]
  /\ paused_at' = [paused_at EXCEPT ![t] = 0]
  /\ resumed' = [resumed EXCEPT ![t] = FALSE]
  /\ UNCHANGED <<now, m_paused, ctor, poolside>>

TStart(t) ==
  /\ m_started_time' = [m_started_time EXCEPT ![t] = now]
  /\ m_paused_time' = [m_paused_time EXCEPT ![t] = 0]
  /\ m_started' = [m_started EXCEPT ![t] = TRUE]
  /\ m_stopped' = [m_stopped EXCEPT ![t] = FALSE]
  /\ m_paused' = [m_paused EXCEPT ![t] = FALSE]
  /\ tcall' = TCall("start", t, now)
  /\ tret' = NoRet
  /\ life' = [life EXCEPT ![t] = "used"]
  /\ mode' = [mode EXCEPT ![t] = "running"]
  /\ ran' = [ran EXCEPT ![t] = 0]
  /\ started_at' = [started_at EXCEPT ![t] = now]
  /\ paused_at' = [paused_at EXCEPT ![t] = 0]
  /\ resumed' = [resumed EXCEPT ![t] = FALSE]
  /\ UNCHANGED <<now, ctor, poolside>>

\* void Timer::stop()
\* faulty variant: m_paused is left as it is
TStop_KeepsPause(t) ==
  /\ m_started' = [m_started EXCEPT ![t] = FALSE]
  /\ m_stopped' = [m_stopped EXCEPT ![t] = TRUE]
  /\ m_started_time' = [m_started_time EXCEPT ![t] = 0]
  /\ m_paused_time' = [m_paused_time EXCEPT ![t] = 0]
  /\ tcall' = TCall("stop", t, now)
  /\ tret' = NoRet
  /\ life' = Touched(t)
  /\ mode' = [mode EXCEPT ![t] = "stopped"]
  /\ ran' = [ran EXCEPT ![t] = 0]
  /\ started_at' = [started_at EXCEPT ![t] = 0]
  /\ paused_at' = [paused_at EXCEPT ![t] = 0]
  /\ resumed' = [resumed EXCEPT ![t] = FALSE]
  /\ UNCHANGED <<now, m_paused, ctor, poolside>>

TStop(t) ==
  /\ m_started' = [m_started EXCEPT ![t] = FALSE]
  /\ m_paused' = [m_paused EXCEPT ![t] = FALSE]
  /\ m_stopped' = [m_stopped EXCEPT ![t] = TRUE]
  /\ m_started_time' = [m_started_time EXCEPT ![t] = 0]
  /\ m_paused_time' = [m_paused_time EXCEPT ![t] = 0]
  /\ tcall' = TCall("stop", t, now)
  /\ tret' = NoRet
  /\ life' = Touched(t)
  /\ mode' = [mode EXCEPT ![t] = "stopped"]
  /\ ran' = [ran EXCEPT ![t] = 0]
  /\ started_at' = [started_at EXCEPT ![t] = 0]
  /\ paused_at' = [paused_at EXCEPT ![t] = 0]
  /\ resumed' = [resumed EXCEPT ![t] = FALSE]
  /\ UNCHANGED <<now, ctor, poolside>>

\* void Timer::pause()
\* faulty variant: m_started is not consulted
TPause_Unguarded(t) ==
  /\ IF ~m_paused[t]
       THEN /\ m_paused_time' = [m_paused_time EXCEPT ![t] = now]
            /\ m_paused' = [m_paused EXCEPT ![t] = TRUE]
       ELSE UNCHANGED <<m_paused_time, m_paused>>
  /\ tcall' = TCall("pause", t, now)
  /\ tret' = NoRet
  /\ life' = Touched(t)
  /\ IF mode[t] = "running"
       THEN /\ mode' = [mode EXCEPT ![t] = "paused"]
            /\ paused_at' = [paused_at EXCEPT ![t] = now]
       ELSE UNCHANGED <<mode, paused_at>>
  /\ UNCHANGED <<now, m_started_time, m_started, m_stopped, ctor, ran, started_at,
                 resumed, poolside>>

\* faulty variant: the time of the pause is not recorded
TPause_NoStamp(t) ==
  /\ IF m_started[t] /\ ~m_paused[t]
       THEN /\ m_paused' = [m_paused EXCEPT ![t] = TRUE]
            /\ UNCHANGED m_paused_time
       ELSE UNCHANGED <<m_paused_time, m_paused>>
  /\ tcall' = TCall("pause", t, now)
  /\ tret' = NoRet
  /\ life' = Touched(t)
  /\ IF mode[t] = "running"
       THEN /\ mode' = [mode EXCEPT ![t] = "paused"]
            /\ paused_at' = [paused_at EXCEPT ![t] = now]
       ELSE UNCHANGED <<mode, paused_at>>
  /\ UNCHANGED <<now, m_started_time, m_started, m_stopped, ctor, ran, started_at,
                 resumed, poolside>>

TPause(t) ==
  /\ IF m_started[t] /\ ~m_paused[t]
       THEN /\ m_paused_time' = [m_paused_time EXCEPT ![t] = now]
            /\ m_paused' = [m_paused EXCEPT ![t] = TRUE]
       ELSE UNCHANGED <<m_paused_time, m_paused>>
  /\ tcall' = TCall("pause", t, now)
  /\ tret' = NoRet
  /\ life' = Touched(t)
  /\ IF mode[t] = "running"
       THEN /\ mode' = [mode EXCEPT ![t] = "paused"]
            /\ paused_at' = [paused_at EXCEPT ![t] = now]
       ELSE UNCHANGED <<mode, paused_at>>
  /\ UNCHANGED <<now, m_started_time, m_started, m_stopped, ctor, ran, started_at,
                 resumed, poolside>>

\* void Timer::resume()
\* faulty variant: m_started_time is not moved past the pause
TResume_KeepsStart(t) ==
  /\ IF m_started[t] /\ m_paused[t]
       THEN /\ m_paused' = [m_paused EXCEPT ![t] = FALSE]
            /\ UNCHANGED m_started_time
       ELSE UNCHANGED <<m_started_time, m_paused>>
  /\ tcall' = TCall("resume", t, now)
  /\ tret' = NoRet
  /\ life' = Touched(t)
  /\ IF mode[t] = "paused"
       THEN /\ mode' = [mode EXCEPT ![t] = "running"]
            /\ paused_at' = [paused_at EXCEPT ![t] = 0]
            /\ resumed' = [resumed EXCEPT ![t] = TRUE]
       ELSE UNCHANGED <<mode, paused_at, resumed>>
  /\ UNCHANGED <<now, m_paused_time, m_started, m_stopped, ctor, ran, started_at,
                 poolside>>

TResume(t) ==
  /\ IF m_started[t] /\ m_paused[t]
       THEN /\ m_started_time' =
                 [m_started_time EXCEPT ![t] = now - (m_paused_time[t] - m_started_time[t])]
            /\ m_paused' = [m_paused EXCEPT ![t] = FALSE]
       ELSE UNCHANGED <<m_started_time, m_paused>>
  /\ tcall' = TCall("resume", t, now)
  /\ tret' = NoRet
  /\ life' = Touched(t)
  /\ IF mode[t] = "paused"
       THEN /\ mode' = [mode EXCEPT ![t] = "running"]
            /\ paused_at' = [paused_at EXCEPT ![t] = 0]
            /\ resumed' = [resumed EXCEPT ![t] = TRUE]
       ELSE UNCHANGED <<mode, paused_at, resumed>>
  /\ UNCHANGED <<now, m_paused_time, m_started, m_stopped, ctor, ran, started_at,
                 poolside>>

\* Duration Timer::restart()
\* faulty variant: the elapsed time is read after the members are reset
TRestart_ReadsLate(t) ==
  /\ tret' = 0
  /\ m_started_time' = [m_started_time EXCEPT ![t] = now]
  /\ m_paused_time' = [m_paused_time EXCEPT ![t] = 0]
  /\ m_started' = [m_started EXCEPT ![t] = TRUE]
  /\ m_stopped' = [m_stopped EXCEPT ![t] = FALSE]
  /\ m_paused' = [m_paused EXCEPT ![t] = FALSE]
  /\ tcall' = TCall("restart", t, now)
  /\ life' = [life EXCEPT ![t] = "used"]
  /\ mode' = [mode EXCEPT ![t] = "running"]
  /\ ran' = [ran EXCEPT ![t] = 0]
  /\ started_at' = [started_at EXCEPT ![t] = now]
  /\ paused_at' = [paused_at EXCEPT ![t] = 0]
  /\ resumed' = [resumed EXCEPT ![t] = FALSE]
  /\ UNCHANGED <<now, ctor, poolside>>

TRestart(t) ==
  /\ tret' = Elapsed(t)
  /\ m_started_time' = [m_started_time EXCEPT ![t] = now]
  /\ m_paused_time' = [m_paused_time EXCEPT ![t] = 0]
  /\ m_started' = [m_started EXCEPT ![t] = TRUE]
  /\ m_stopped' = [m_stopped EXCEPT ![t] = FALSE]
  /\ m_paused' = [m_paused EXCEPT ![t] = FALSE]
  /\ tcall' = TCall("restart", t, now)
  /\ life' = [life EXCEPT ![t] = "used"]
  /\ mode' = [mode EXCEPT ![t] = "running"]
  /\ ran' = [ran EXCEPT ![t] = 0]
  /\ started_at' = [started_at EXCEPT ![t] = now]
  /\ paused_at' = [paused_at EXCEPT ![t] = 0]
  /\ resumed' = [resumed EXCEPT ![t] = FALSE]
  /\ UNCHANGED <<now, ctor, poolside>>

\* Two Timers constructed at the same reading of the clock, each with either
\* value of start; the pool of the behaviour is left alone.
InitTimer ==
  /\ PoolBuilt({"basic"}, {1})
  /\ \E start \in [Timers -> BOOLEAN] : \E at \in 0 .. 1 : TimerBuilt(start, at)

NextTimer ==
  \/ Tick
  \/ \E t \in Timers : TStart(t)
  \/ \E t \in Timers : TStop(t)
  \/ \E t \in Timers : TPause(t)
  \/ \E t \in Timers : TResume(t)
  \/ \E t \in Timers : TRestart(t)

SpecTimer == InitTimer /\ [][NextTimer]_vars

\* ============================================================= claims
\* the slots of the array whose active_ flag is set
ActiveSlots == {i \in DOMAIN active_ : active_[i]}

\* the largest member of a non-empty set of numbers
Max(S) == CHOOSE m \in S : \A x \in S : x <= m

\* the smallest member of a non-empty set of numbers
Min(S) == CHOOSE m \in S : \A x \in S : m <= x

\* C1: a freshly constructed pool of capacity N > 0 has activeCount() == 0 and
\* capacity() == N; of the activate() calls that follow construction directly,
\* the first N each return a slot, no slot twice, and call N+1 returns nullptr.
C1_FreshPoolHandsOutNSlots ==
  /\ (call.op = "construct" /\ call.index > 0) =>
       /\ active_count_["A"] = 0
       /\ capacity_["A"] = call.index
  /\ run.src = "construct" =>
       \A k \in 1 .. Len(run.rets) :
         /\ k <= capacity_["A"] =>
              /\ run.rets[k] \in Slots(capacity_["A"])
              /\ \A j \in 1 .. (k - 1) : run.rets[j] # run.rets[k]
         /\ k = capacity_["A"] + 1 => run.rets[k] = nullptr

\* N + 1 activate() calls have been made on a fresh pool of the largest capacity
C1_witness ==
  /\ run.src = "construct"
  /\ capacity_["A"] = MaxCap
  /\ Len(run.rets) = MaxCap + 1
  /\ call.op = "activate"

\* C2: in both pools, activate() on a pool whose first_available_ is null
\* returns nullptr and changes nothing of the pool; otherwise it returns the
\* slot first_available_ points to, sets that slot's active_ flag (and no
\* other), moves first_available_ to that slot's next_ and adds exactly one to
\* active_count_ (an increment of a std::size_t).
C2_ActivateExhaustsOrPops ==
  [][\A this \in Objs :
       (ObjActivate(this) \/ IdxActivate(this)) =>
         LET f == first_available_[this] IN
         IF f = nullptr
           THEN /\ ret' = nullptr
                /\ UNCHANGED <<active_count_, active_, first_available_, next_,
                               highest_active_index_>>
           ELSE /\ ret' = f
                /\ active_'[f]
                /\ \A i \in DOMAIN active_ : i # f => active_'[i] = active_[i]
                /\ first_available_'[this] = next_[f]
                /\ active_count_'[this] = (active_count_[this] + 1) % SizeMod
                /\ next_' = next_
  ]_vars

\* activate() has just been refused by a full pool whose slots are all active
C2_witness ==
  /\ call.op = "activate"
  /\ ret = nullptr
  /\ first_available_[call.this] = nullptr
  /\ active_count_[call.this] = capacity_[call.this]
  /\ ActiveSlots = Slots(capacity_[call.this])

\* C3: in the basic pool used within its contract, activate() hands out the
\* slot that was deactivated last among those still free: slots deactivated
\* in the order i1, ..., ik come back in the order ik, ..., i1.
C3_LastFreedFirst ==
  (kind = "basic" /\ strayed = 0 /\ call.op = "activate" /\ due # NoRet) => ret = due

\* of two freed slots the later freed, higher one has been handed out first
C3_witness ==
  /\ kind = "basic" /\ strayed = 0
  /\ call.op = "activate"
  /\ due # NoRet /\ ret = due
  /\ freed # <<>>
  /\ ret > Head(freed)

\* the slots met following nxt from p, until nullptr or for fuel steps
RECURSIVE Chain(_, _, _)
Chain(p, nxt, fuel) ==
  IF p = nullptr \/ fuel = 0 THEN <<>>
  ELSE <<p>> \o Chain(nxt[p], nxt, fuel - 1)

\* the free list of a pool, followed for one step more than it has slots
FreeList(this) == Chain(first_available_[this], next_, capacity_[this] + 1)

\* the slots of a sequence
Range(s) == {s[k] : k \in 1 .. Len(s)}

\* C4: in the basic pool used within its contract, the free list ends at
\* nullptr without coming back on itself, holds no slot twice, holds exactly
\* the slots whose active_ flag is false, and is capacity() - activeCount() long.
C4_FreeListIsTheInactiveSlots ==
  \A this \in Objs :
    (kind = "basic" /\ Usable(this) /\ strayed = 0) =>
      LET fl == FreeList(this) IN
      /\ Len(fl) <= capacity_[this]
      /\ \A j, k \in 1 .. Len(fl) : j # k => fl[j] # fl[k]
      /\ Range(fl) = Slots(capacity_[this]) \ ActiveSlots
      /\ Len(fl) = capacity_[this] - active_count_[this]

\* two slots have been deactivated out of index order and one is still active
C4_witness ==
  /\ kind = "basic" /\ strayed = 0
  /\ call.op = "deactivate"
  /\ Usable(call.this)
  /\ Len(FreeList(call.this)) = 2
  /\ FreeList(call.this)[1] > FreeList(call.this)[2]
  /\ active_count_[call.this] = 1

\* C5: in both pools, whatever index deactivate() is given and whether or not
\* the slot it names is active, activeCount() stays within 0 .. capacity() and
\* equals the number of slots whose active_ flag is set.
C5_CountIsTheNumberOfActiveSlots ==
  \A this \in Objs :
    Usable(this) =>
      /\ active_count_[this] \in 0 .. capacity_[this]
      /\ active_count_[this] = Cardinality(ActiveSlots)

\* C6: in the indexed pool used within its contract, between calls
\* highestActiveIndex() is the largest index of an active slot, and 0 when no
\* slot is active; with capacity 5 it reads 0,1,2,3,4 over five activations,
\* 3 after deactivate(4), and still 3 after deactivate(0) and deactivate(2).
C6_HighestIsTheLargestActiveIndex ==
  /\ \A this \in Objs :
       (kind = "indexed" /\ Usable(this) /\ strayed = 0) =>
         highest_active_index_[this] =
           IF ActiveSlots = {} THEN 0 ELSE Max({index_[i] : i \in ActiveSlots})
  /\ (kind = "indexed" /\ run.src = "construct"
        /\ Len(run.rets) \in 1 .. capacity_["A"]) =>
       highest_active_index_["A"] = Len(run.rets) - 1

\* the end of the capacity-5 scenario: 0..4 activated, then 4, 0 and 2
\* deactivated, slots 1 and 3 still active
C6_witness ==
  /\ kind = "indexed" /\ capacity_["A"] = 5
  /\ call = Call("deactivate", "A", 2, "A")
  /\ ActiveSlots = {1, 3}
  /\ highest_active_index_["A"] = 3
  /\ FreeList("A") = <<0, 2, 4>>

\* C7: in the indexed pool used within its contract, whenever some slot is
\* inactive the next activate() returns the inactive slot of the lowest index.
C7_LowestIndexFirst ==
  [][\A this \in Objs :
       (IdxActivate(this) /\ strayed = 0 /\ Slots(capacity_[this]) \ ActiveSlots # {}) =>
         ret' = Min(Slots(capacity_[this]) \ ActiveSlots)
  ]_vars

\* C8: in both pools, clear() in any state sets activeCount() to 0, clears
\* every active_ flag, keeps capacity(), rebuilds the free list as slot 0 ->
\* slot 1 -> ... -> slot capacity-1 -> nullptr and (indexed pool) sets
\* highestActiveIndex() to 0; the activate() calls that follow it directly
\* return slots 0, 1, ..., capacity-1 in that order; a clear() right after a
\* clear() changes nothing.
C8_ClearRebuildsThePool ==
  [][/\ \A this \in Objs :
          (ObjClear(this) \/ IdxClear(this)) =>
            /\ active_count_'[this] = 0
            /\ \A i \in Slots(capacity_[this]) : ~active_'[i]
            /\ capacity_' = capacity_
            /\ first_available_'[this] = 0
            /\ \A i \in Slots(capacity_[this]) :
                 next_'[i] = IF i = capacity_[this] - 1 THEN nullptr ELSE i + 1
            /\ kind = "indexed" => highest_active_index_'[this] = 0
            /\ (call.op = "clear" /\ call.this = this) => poolvars' = poolvars
     /\ run'.src = "clear" =>
          \A k \in 1 .. Len(run'.rets) :
            k <= capacity_'[call'.this] => run'.rets[k] = k - 1
  ]_vars

\* after a clear() the pool of the largest capacity has been activated to the full
C8_witness ==
  /\ run.src = "clear"
  /\ call.op = "activate"
  /\ capacity_[call.this] = MaxCap
  /\ Len(run.rets) = MaxCap
  /\ active_count_[call.this] = MaxCap

\* C9: in both pools, deactivate(index) with index >= capacity() changes
\* nothing: active_count_, every active_ flag and next_ link,
\* first_available_ and highest_active_index_ stay as they were.
C9_DeactivateOutOfRangeIsNoOp ==
  [][\A this \in Objs : \A index \in Indices(capacity_[this]) :
       (index >= capacity_[this]
          /\ (ObjDeactivate(this, index) \/ IdxDeactivate(this, index))) =>
         UNCHANGED poolvars
  ]_vars

\* deactivate() has been called with an index past the end on a pool with active slots
C9_witness ==
  /\ call.op = "deactivate"
  /\ call.index >= capacity_[call.this]
  /\ active_count_[call.this] > 0
  /\ first_available_[call.this] # nullptr

\* C10: after a move of other into this (construction or assignment, both
\* pools), the moved-from pool has no storage, no free-list head, and reports
\* capacity() == 0 and activeCount() == 0.
C10_MovedFromPoolIsEmpty ==
  (call.op \in {"move_construct", "move_assign"} /\ call.this # call.other) =>
    /\ pool_[call.other] = "null"
    /\ first_available_[call.other] = nullptr
    /\ capacity_[call.other] = 0
    /\ active_count_[call.other] = 0

\* C11: a move of pool other into pool this (construction or assignment, both
\* pools) gives this exactly the active_count_, capacity_, first_available_ and
\* storage (and, indexed pool, highest_active_index_) other had just before,
\* and touches no slot's active_ flag, next_ link or index_: the free list of
\* this after the move is the free list of other before it, so the activate()
\* calls that follow return the slots other would have returned; a move
\* assignment of a pool to itself changes nothing of the pool.
C11_MoveCarriesThePoolOver ==
  [][\A this, other \in Objs :
       (\/ ObjMoveAssign(this, other) \/ ObjMoveConstruct(this, other)
        \/ IdxMoveAssign(this, other) \/ IdxMoveConstruct(this, other)) =>
         IF this = other
           THEN UNCHANGED poolvars
           ELSE /\ active_count_'[this] = active_count_[other]
                /\ capacity_'[this] = capacity_[other]
                /\ first_available_'[this] = first_available_[other]
                /\ pool_'[this] = pool_[other]
                /\ kind = "indexed" =>
                     highest_active_index_'[this] = highest_active_index_[other]
                /\ active_' = active_ /\ next_' = next_ /\ index_' = index_
                /\ Usable(other) =>
                     /\ Usable(this)'
                     /\ FreeList(this)' = FreeList(other)
  ]_vars

\* a pool with one active slot and two free ones, freed out of index order,
\* has just been moved into a new object
C11_witness ==
  /\ call.op = "move_construct"
  /\ Usable(call.this)
  /\ active_count_[call.this] = 1
  /\ Len(FreeList(call.this)) = 2
  /\ FreeList(call.this)[1] > FreeList(call.this)[2]

\* C12: constructing either pool with capacity 0 fails (no pool comes to
\* exist) and never reaches a PoolUnit outside the storage array: there is no
\* access to slot capacity - 1 of an empty array while the free list is built.
C12_ZeroCapacityIsRejected ==
  (call.op = "construct" /\ call.index = 0) => (~born["A"] /\ ~oob)

\* a call of activate(), deactivate(index) or clear() on pool this
PoolCall(this) ==
  \/ ObjActivate(this) \/ ObjClear(this)
  \/ IdxActivate(this) \/ IdxClear(this)
  \/ \E index \in Indices(capacity_[this]) :
       ObjDeactivate(this, index) \/ IdxDeactivate(this, index)

\* C13: in both pools, at(index) returns the slot at position index when
\* index < capacity() and nullptr when index >= capacity(), and changes nothing
\* of the pool; activate(), deactivate() and clear() leave the array and the
\* capacity as they are, so an in-range index names the same slot after every
\* sequence of them.
C13_AtIsCheckedAndPure ==
  [][\A this \in Objs :
       /\ \A index \in Indices(capacity_[this]) :
            (ObjAt(this, index) \/ IdxAt(this, index)) =>
              /\ index < capacity_[this] => ret' = index
              /\ index >= capacity_[this] => ret' = nullptr
              /\ UNCHANGED <<poolvars, object_, fault, oob>>
       /\ PoolCall(this) => UNCHANGED <<pool_, storage, capacity_>>
  ]_vars

\* at(1) has returned slot 1 of a pool that has been through activate() and
\* deactivate() calls and has slots in use
C13_witness ==
  /\ call.op = "at" /\ call.index = 1
  /\ ret = 1
  /\ run.src = "off"
  /\ handed # {}
  /\ first_available_[call.this] = 1

\* C14: in both pools, active(index) is bounds-checked: it reads a slot only
\* when index < capacity(), and for such an index it returns true exactly when
\* slot index has been returned by activate() and has not been deactivated or
\* cleared since.
C14_ActiveIsBoundsChecked ==
  call.op = "active" =>
    /\ ~oob
    /\ call.index < capacity_[call.this] => ret = Flag(call.index \in handed)

\* C15: in both pools, activate(), deactivate(index) and clear() never modify
\* the value stored in any slot: a value written into slot i is still there
\* after any later sequence of these calls, a deactivation and reactivation
\* of slot i included.
C15_CallsKeepStoredValues ==
  [][\A this \in Objs : PoolCall(this) => object_' = object_]_vars

\* activate() has handed out again a slot that was deactivated while it held
\* the value its caller had written, and the value is still there
C15_witness ==
  /\ call.op = "activate"
  /\ ret # nullptr
  /\ object_[ret] = MaxVal
  /\ run.src = "off"
  /\ strayed = 0

\* C16: a default-constructed Timer on which start() and restart() have never
\* been called reports stopped() and not started(), and its elapsed() is 0
\* whatever the clock reads; a Timer constructed with start == true and not
\* called since reports started(), and its elapsed() is the clock time passed
\* since its construction.
C16_FreshTimer ==
  \A t \in Timers :
    /\ (~ctor[t] /\ life[t] # "used") =>
         /\ m_stopped[t] /\ ~m_started[t]
         /\ Elapsed(t) = 0
    /\ (ctor[t] /\ life[t] = "fresh") =>
         /\ m_started[t]
         /\ Elapsed(t) = now - started_at[t]

\* the clock has run to its last reading over a never started Timer, on which
\* calls have been made, and an untouched Timer constructed with start == true
C16_witness ==
  /\ ~ctor["t1"] /\ life["t1"] = "idle"
  /\ ctor["t2"] /\ life["t2"] = "fresh"
  /\ now = MaxNow
  /\ Elapsed("t2") > 0

\* C17: after pause() on a started, unpaused Timer, paused() is true and, for
\* as long as the Timer stays paused and however far the clock moves on,
\* elapsed() is (time of pause - time of start); hence of two paused Timers
\* started together, the one paused later reports an elapsed() at least as large.
C17_FrozenAtPauseMinusStart ==
  /\ \A t \in Timers :
       mode[t] = "paused" =>
         /\ m_paused[t]
         /\ Elapsed(t) = paused_at[t] - started_at[t]
  /\ \A t, u \in Timers :
       (/\ mode[t] = "paused" /\ mode[u] = "paused"
        /\ started_at[t] = started_at[u]
        /\ paused_at[t] <= paused_at[u]) =>
         Elapsed(t) <= Elapsed(u)

\* C17, amended: after pause() on a started, unpaused Timer, paused() is true
\* and, for as long as the Timer stays paused and however far the clock moves
\* on, elapsed() is the time the Timer had spent unpaused since its start when
\* pause() was called, which is (time of pause - time of start) when it has not
\* been resumed since that start; hence of two paused Timers started together
\* and not resumed since, the one paused later reports an elapsed() at least
\* as large.
C17_FrozenAtTimeRun ==
  /\ \A t \in Timers :
       mode[t] = "paused" =>
         /\ m_paused[t]
         /\ Elapsed(t) = ran[t]
         /\ ~resumed[t] => Elapsed(t) = paused_at[t] - started_at[t]
  /\ \A t, u \in Timers :
       (/\ mode[t] = "paused" /\ mode[u] = "paused"
        /\ ~resumed[t] /\ ~resumed[u]
        /\ started_at[t] = started_at[u]
        /\ paused_at[t] <= paused_at[u]) =>
         Elapsed(t) <= Elapsed(u)

\* two Timers started together have been paused one after the other, and the
\* clock has moved on since the second pause
C17_witness ==
  /\ mode["t1"] = "paused" /\ mode["t2"] = "paused"
  /\ ~resumed["t1"] /\ ~resumed["t2"]
  /\ started_at["t1"] = started_at["t2"]
  /\ paused_at["t1"] < paused_at["t2"]
  /\ paused_at["t2"] < now
  /\ 0 < Elapsed("t1") /\ Elapsed("t1") < Elapsed("t2")

\* C18: resume() on a paused Timer keeps the time gathered before the pause
\* and leaves the paused interval out: right after it the Timer is not paused
\* and elapsed() is what it was while paused; at every moment elapsed() of a
\* started Timer is the total time it has spent started and unpaused since its
\* last start() / restart(), so after resume() it grows by the clock time
\* passed since; it never decreases over pause(), resume() and the passing
\* of time.
C18_ResumeKeepsTheTimeRun ==
  [][\A t \in Timers :
       /\ (TResume(t) /\ mode[t] = "paused") =>
            /\ ~m_paused'[t]
            /\ Elapsed(t)' = Elapsed(t)
       /\ mode[t] \in {"running", "paused"} => Elapsed(t) = ran[t]
       /\ mode'[t] \in {"running", "paused"} => Elapsed(t)' = ran'[t]
       /\ (Tick \/ \E u \in Timers : TPause(u) \/ TResume(u)) =>
            Elapsed(t)' >= Elapsed(t)
  ]_vars

\* a Timer ran for a tick, was paused for a tick, was resumed and has run for
\* another tick: two ticks of the three since its start are counted
C18_witness ==
  \E t \in Timers :
    /\ tcall = TCall("resume", t, MaxNow - 1)
    /\ mode[t] = "running" /\ resumed[t]
    /\ now = MaxNow
    /\ now - started_at[t] = 3
    /\ Elapsed(t) = 2

\* C19: restart() returns what elapsed() was right before the call (0 for a
\* Timer never started or stopped, the frozen value for a paused one) and
\* leaves the Timer started, not paused and not stopped, its elapsed() being 0
\* at the call and the clock time passed since the call from then on.
C19_RestartReturnsAndResets ==
  [][/\ \A t \in Timers :
          TRestart(t) =>
            /\ tret' = Elapsed(t)
            /\ mode[t] \in {"unstarted", "stopped"} => tret' = 0
            /\ mode[t] = "paused" => tret' = ran[t]
            /\ m_started'[t] /\ ~m_paused'[t] /\ ~m_stopped'[t]
            /\ Elapsed(t)' = 0
     /\ \A t \in Timers :
          (tcall'.op = "restart" /\ tcall'.timer = t) =>
            Elapsed(t)' = now' - tcall'.at
  ]_vars

\* restart() has returned the positive time its Timer had run, and the clock
\* has moved on since the call
C19_witness ==
  /\ tcall.op = "restart"
  /\ tret > 0
  /\ now > tcall.at
  /\ Elapsed(tcall.timer) = now - tcall.at

\* C20: stop() on a Timer in any state leaves stopped() true, started() and
\* paused() false and elapsed() 0, and so it stays, whatever the clock reads
\* and whatever pause() and resume() calls are made, until the next start()
\* or restart().
C20_StoppedStaysAtZero ==
  \A t \in Timers :
    mode[t] = "stopped" =>
      /\ m_stopped[t] /\ ~m_started[t] /\ ~m_paused[t]
      /\ Elapsed(t) = 0

\* a Timer that had been started was stopped; pause() and resume() have been
\* called on it since, and the clock has moved on after them
C20_witness ==
  /\ tcall.op = "resume"
  /\ mode[tcall.timer] = "stopped"
  /\ life[tcall.timer] = "used"
  /\ now > tcall.at
  /\ Elapsed(tcall.timer) = 0

\* C21: start() on a Timer in any state (never started, stopped, running or
\* paused) leaves started() true, paused() and stopped() false and elapsed()
\* at 0, whatever time had been gathered or frozen; from then on, until the
\* next call, elapsed() is the clock time passed since that start().
C21_StartCountsFromZero ==
  [][\A t \in Timers :
       /\ TStart(t) =>
            /\ m_started'[t] /\ ~m_paused'[t] /\ ~m_stopped'[t]
            /\ Elapsed(t)' = 0
       /\ (tcall'.op = "start" /\ tcall'.timer = t) =>
            Elapsed(t)' = now' - tcall'.at
  ]_vars

\* a Timer constructed with start == true has been given start() two ticks
\* or more after its construction, and the clock has moved on since
C21_witness ==
  /\ tcall.op = "start"
  /\ ctor[tcall.timer]
  /\ tcall.at >= 2
  /\ now > tcall.at
  /\ Elapsed(tcall.timer) = now - tcall.at

\* C24: after any sequence of start(), stop(), pause(), resume() and
\* restart() calls from construction, started() == !stopped() and paused()
\* implies started().
C24_FlagsAgree ==
  \A t \in Timers :
    /\ m_started[t] = ~m_stopped[t]
    /\ m_paused[t] => m_started[t]

\* one Timer is paused after a pause and a resume, the other has been
\* started and stopped, and pause() has just been called on the stopped one
C24_witness ==
  /\ m_paused["t1"] /\ resumed["t1"]
  /\ mode["t2"] = "stopped" /\ life["t2"] = "used"
  /\ tcall.op = "pause" /\ tcall.timer = "t2"

\* C22: in the indexed pool, a deactivate(index) of an in-range active slot
\* that runs to its end puts the freed slot at the head of the free list
\* exactly when the free list is empty or index is lower than the index of
\* the head slot; otherwise the head stays the head and the freed slot is
\* linked directly after it.
C22_FreedSlotGoesByIndex ==
  [][\A this \in Objs : \A index \in Slots(capacity_[this]) :
       (active_[index] /\ IdxDeactivate(this, index) /\ ~fault') =>
         LET first == first_available_[this] IN
         IF first = nullptr \/ index < index_[first]
           THEN /\ first_available_'[this] = index
                /\ next_'[index] = first
           ELSE /\ first_available_'[this] = first
                /\ next_'[first] = index
                /\ next_'[index] = next_[first]
  ]_vars

\* C23: in the indexed pool, over any sequence of activate(), clear() and
\* deactivate(i) calls on in-range active slots, every deactivate(i) runs to
\* its end without reading the next_ link through a null first_available_, a
\* full pool included; after it the free list ends at nullptr, holds the
\* slots it held before and slot i, each once, and is capacity() -
\* activeCount() long.
C23_DeactivateKeepsTheFreeList ==
  [][\A this \in Objs : \A index \in Slots(capacity_[this]) :
       (active_[index] /\ IdxDeactivate(this, index)) =>
         LET before == FreeList(this)
             after == FreeList(this)'
         IN  /\ ~fault'
             /\ Len(after) <= capacity_[this]
             /\ \A j, k \in 1 .. Len(after) : j # k => after[j] # after[k]
             /\ Range(after) = Range(before) \cup {index}
             /\ Len(after) = capacity_'[this] - active_count_'[this]
  ]_vars

====
